---- MODULE Spec2Model ----
(***************************************************************************)
(* Model of the four-layer deduplication engine, src/src/dedup_engine.py   *)
(* (class DedupEngine).  One call of deduplicate_resources is a run of the *)
(* state machine: Begin, then one action per layer, then Finish.           *)
(*                                                                         *)
(* Python strings are sequences of one-character strings.  A resource is   *)
(* a record (dict) with the keys name, url, description, category.  The    *)
(* lists the layers build hold references to the dicts of the input list;  *)
(* a reference is the position of the dict in `candidates`.                *)
(*                                                                         *)
(* The DuplicateFilter of src/awesome_list_researcher/duplicate_filter.py  *)
(* is modelled next to it: add_existing_links and is_duplicate.            *)
(***************************************************************************)
EXTENDS Integers, Sequences, FiniteSets, TLC

(***************************************************************************)
(* str helpers                                                             *)
(***************************************************************************)
UpperChars == <<"A", "B", "C", "D", "E", "F", "G", "H", "I", "J", "K", "L", "M",
                "N", "O", "P", "Q", "R", "S", "T", "U", "V", "W", "X", "Y", "Z">>

LowerChars == <<"a", "b", "c", "d", "e", "f", "g", "h", "i", "j", "k", "l", "m",
                "n", "o", "p", "q", "r", "s", "t", "u", "v", "w", "x", "y", "z">>

Digits == {"0", "1", "2", "3", "4", "5", "6", "7", "8", "9"}

\* the lowercase letter of each uppercase letter
LowerOf ==
    [c \in {UpperChars[i] : i \in 1..Len(UpperChars)} |->
        LowerChars[CHOOSE i \in 1..Len(UpperChars) : UpperChars[i] = c]]

LowerChar(c) == IF c \in DOMAIN LowerOf THEN LowerOf[c] ELSE c

\* str.lower()
Lower(s) == [i \in 1..Len(s) |-> LowerChar(s[i])]

\* s[a:b] with 0-based Python slice bounds 0 <= a, b <= len(s)
Slice(s, a, b) == IF b <= a THEN <<>> ELSE SubSeq(s, a + 1, b)

\* s.startswith(p)
StartsWith(s, p) == Len(s) >= Len(p) /\ SubSeq(s, 1, Len(p)) = p

\* s.find(c, start): 0-based position of the first c at or after start, -1 if none
Find(s, c, start) ==
    IF \E i \in (start + 1)..Len(s) : s[i] = c
    THEN (CHOOSE i \in (start + 1)..Len(s) :
              s[i] = c /\ \A j \in (start + 1)..(i - 1) : s[j] # c) - 1
    ELSE -1

\* s.rfind(c): 0-based position of the last c, -1 if none
RFind(s, c) ==
    IF \E i \in 1..Len(s) : s[i] = c
    THEN (CHOOSE i \in 1..Len(s) :
              s[i] = c /\ \A j \in (i + 1)..Len(s) : s[j] # c) - 1
    ELSE -1

\* s.rstrip(c)
RStrip(s, c) ==
    LET keep == {i \in 0..Len(s) : \A j \in (i + 1)..Len(s) : s[j] = c}
        n == CHOOSE i \in keep : \A k \in keep : i <= k
    IN  SubSeq(s, 1, n)

\* s.lstrip(c)
LStrip(s, c) ==
    LET drop == {i \in 0..Len(s) : \A j \in 1..i : s[j] = c}
        n == CHOOSE i \in drop : \A k \in drop : k <= i
    IN  SubSeq(s, n + 1, Len(s))

\* s.strip() on a string whose only whitespace is the space character
Strip(s) == LStrip(RStrip(s, " "), " ")

(***************************************************************************)
(* urllib.parse.urlparse, restricted to printable ASCII without          *)
(* whitespace: scheme, netloc, path; params, query and fragment are split  *)
(* off and are not part of the path.  A netloc with one of '[' and ']'     *)
(* but not the other makes urlsplit raise ValueError; netlocs with both    *)
(* are not in the model.                                                   *)
(***************************************************************************)
SchemeChars ==
    {UpperChars[i] : i \in 1..Len(UpperChars)} \cup
    {LowerChars[i] : i \in 1..Len(LowerChars)} \cup Digits \cup {"+", "-", "."}

Letters ==
    {UpperChars[i] : i \in 1..Len(UpperChars)} \cup
    {LowerChars[i] : i \in 1..Len(LowerChars)}

\* the schemes of urllib.parse.uses_params that the model's URLs can carry
UsesParams == {<<>>, <<"h", "t", "t", "p">>, <<"h", "t", "t", "p", "s">>}

\* the length of the prefix of s before the first character that is in stops
UpTo(s, stops) ==
    CHOOSE i \in 0..Len(s) :
        /\ \A j \in 1..i : s[j] \notin stops
        /\ (i < Len(s) => s[i + 1] \in stops)

\* s.split(c, 1)[0] for the characters of stops
CutAt(s, stops) == Slice(s, 0, UpTo(s, stops))

\* urlsplit: `i = url.find(':')`, a scheme when url[:i] is a letter followed
\* by scheme characters; <<scheme, rest>>
SplitSchemeAt(url, colon) ==
    IF /\ colon > 0
       /\ url[1] \in Letters
       /\ \A j \in 1..colon : url[j] \in SchemeChars
    THEN <<Lower(Slice(url, 0, colon)), Slice(url, colon + 1, Len(url))>>
    ELSE <<<<>>, url>>

SplitScheme(url) == SplitSchemeAt(url, Find(url, ":", 0))

\* _splitnetloc(url, 2): the netloc ends at the first of '/', '?', '#'
NetlocAt(after, n) == <<Slice(after, 0, n), Slice(after, n, Len(after))>>

\* urlsplit: `if url[:2] == '//'`; <<netloc, rest>>
SplitNetloc(rest) ==
    IF StartsWith(rest, <<"/", "/">>)
    THEN NetlocAt(Slice(rest, 2, Len(rest)),
                  UpTo(Slice(rest, 2, Len(rest)), {"/", "?", "#"}))
    ELSE <<<<>>, rest>>

\* _splitparams: the first ';' of the last path segment starts the params
SplitParamsAt(url, i) == IF i < 0 THEN url ELSE Slice(url, 0, i)

_splitparams(url) ==
    SplitParamsAt(url, IF RFind(url, "/") >= 0
                       THEN Find(url, ";", RFind(url, "/"))
                       ELSE Find(url, ";", 0))

\* urlparse: `if scheme in uses_params and ';' in url`
PathWithoutParams(scheme, url) ==
    IF scheme \in UsesParams /\ Find(url, ";", 0) >= 0 THEN _splitparams(url) ELSE url

\* urlsplit cuts the fragment at the first '#', then the query at the first '?'
ParseAfterNetloc(scheme, nl) ==
    [scheme |-> scheme, netloc |-> nl[1],
     path |-> PathWithoutParams(scheme, CutAt(CutAt(nl[2], {"#"}), {"?"}))]

ParseAfterScheme(ss) == ParseAfterNetloc(ss[1], SplitNetloc(ss[2]))

urlparse(url) == ParseAfterScheme(SplitScheme(url))

\* urlsplit: `raise ValueError("Invalid IPv6 URL")`
InvalidIPv6(netloc) ==
    (\E i \in 1..Len(netloc) : netloc[i] = "[") # (\E i \in 1..Len(netloc) : netloc[i] = "]")

\* resource.get(key, default)
Get(resource, key, default) ==
    IF key \in DOMAIN resource THEN resource[key] ELSE default

(***************************************************************************)
(* DedupEngine._get_canonical_url and DedupEngine._get_hostname            *)
(***************************************************************************)
WWW == <<"w", "w", "w", ".">>

\* mutant: the 'www.' prefix is kept
KeepWww(domain) == domain

\* domain = parsed.netloc.lower(); if domain.startswith("www."): domain = domain[4:]
StripWww(domain) ==
    IF StartsWith(domain, WWW) THEN Slice(domain, 4, Len(domain)) ELSE domain

\* mutant: the trailing slash of the path is kept
CanonicalOfKeepingSlash(parsed) ==
    StripWww(Lower(parsed.netloc)) \o Lower(parsed.path)

\* return f"{domain}{path}", path = parsed.path.rstrip("/").lower()
CanonicalOf(parsed) ==
    StripWww(Lower(parsed.netloc)) \o Lower(RStrip(parsed.path, "/"))

\* mutant: the fallback returns the URL as it is
CanonicalOrRawUnlowered(url, parsed) ==
    IF InvalidIPv6(parsed.netloc) THEN url ELSE CanonicalOf(parsed)

\* try: ... except Exception: return url.lower()
CanonicalOrRaw(url, parsed) ==
    IF InvalidIPv6(parsed.netloc) THEN Lower(url) ELSE CanonicalOf(parsed)

_get_canonical_url(url) == CanonicalOrRaw(url, urlparse(url))

\* try: ... except Exception: return ""
HostnameOrEmpty(parsed) ==
    IF InvalidIPv6(parsed.netloc) THEN <<>> ELSE StripWww(Lower(parsed.netloc))

_get_hostname(url) == HostnameOrEmpty(urlparse(url))

(***************************************************************************)
(* Levenshtein.distance: unit-cost insert, delete, substitute; computed    *)
(* row by row (Wagner-Fischer).                                            *)
(***************************************************************************)
Min2(a, b) == IF a <= b THEN a ELSE b

RECURSIVE LevRowFrom(_, _, _, _, _)
\* cells j..Len(t) of the row of character ch, given the previous row and
\* the cell to the left
LevRowFrom(prev, ch, t, j, left) ==
    IF j > Len(t) THEN <<>>
    ELSE LET sub == prev[j] + (IF t[j] = ch THEN 0 ELSE 1)
             cell == Min2(Min2(prev[j + 1] + 1, left + 1), sub)
         IN  <<cell>> \o LevRowFrom(prev, ch, t, j + 1, cell)

RECURSIVE LevRows(_, _, _, _)
LevRows(s, t, i, prev) ==
    IF i > Len(s) THEN prev
    ELSE LevRows(s, t, i + 1, <<prev[1] + 1>> \o LevRowFrom(prev, s[i], t, 1, prev[1] + 1))

LevenshteinDistance(s, t) ==
    LevRows(s, t, 1, [j \in 1..(Len(t) + 1) |-> j - 1])[Len(t) + 1]

(***************************************************************************)
(* The embedding provider (SentenceTransformer.encode, then L2             *)
(* normalisation) is external.  It is modelled by a fixed, deterministic   *)
(* provider: a text is embedded according to its last character, equal     *)
(* texts get equal vectors, and np.dot of two normalised vectors is the    *)
(* cosine similarity, kept in hundredths.                                  *)
(***************************************************************************)
EmbeddingClass(text) ==
    IF Len(text) > 0 /\ text[Len(text)] \in {"p", "q", "r", "s"}
    THEN text[Len(text)] ELSE "o"

encode(text) == [cls |-> EmbeddingClass(text), text |-> text]

ClassSimilarity ==
    [a \in {"p", "q", "r", "s", "o"} |->
      [b \in {"p", "q", "r", "s", "o"} |->
        CASE a = b /\ a # "o"        -> 96
          [] {a, b} = {"p", "q"}     -> 95
          [] {a, b} = {"p", "r"}     -> 88
          [] {a, b} = {"p", "s"}     -> 85
          [] {a, b} = {"q", "r"}     -> 87
          [] {a, b} = {"q", "s"}     -> 84
          [] {a, b} = {"r", "s"}     -> 80
          [] OTHER                   -> 50]]

\* similarity = np.dot(embedding, unique_embedding), in hundredths
dot(embedding, unique_embedding) ==
    IF embedding = unique_embedding THEN 100
    ELSE ClassSimilarity[embedding.cls][unique_embedding.cls]

(***************************************************************************)
(* State                                                                   *)
(***************************************************************************)
VARIABLES
    candidates,           \* the argument of deduplicate_resources
    original_urls,        \* self.original_urls
    video_categories,     \* self.video_categories
    duplicate_threshold,  \* self.duplicate_threshold, in tenths
    sentence_transformer, \* self.sentence_transformer: "None" or "loaded"
    pc,                   \* position in deduplicate_resources
    dedup_stats,          \* the dict of counters
    case_deduped, case_duplicates,
    fuzzy_deduped, fuzzy_duplicates,
    domain_deduped, domain_duplicates,
    original_deduped, original_filtered,
    semantic_deduped, semantic_duplicates,
    duplicate_ratio,      \* <<numerator, denominator>>
    warned,               \* whether logger.warning was called for the ratio
    files,                \* the files of output_dir and run_dir, as written so far
    returned,             \* the list returned (empty before the return)
    raised,               \* the exception that left deduplicate_resources, or "none"
    provider_calls,       \* the lists of texts passed to sentence_transformer.encode
    history,              \* what the caller got from the calls before this one
    \* DuplicateFilter (src/awesome_list_researcher/duplicate_filter.py)
    existing_urls,        \* self.existing_urls
    existing_names,       \* self.existing_names
    added_links,          \* the links given to add_existing_links so far
    answer                \* <<candidate, value>> of the last is_duplicate call since then

vars == <<candidates, original_urls, video_categories, duplicate_threshold,
          sentence_transformer, pc,
          dedup_stats, case_deduped, case_duplicates, fuzzy_deduped,
          fuzzy_duplicates, domain_deduped, domain_duplicates, original_deduped,
          original_filtered, semantic_deduped, semantic_duplicates,
          duplicate_ratio, warned, files, returned, raised, provider_calls, history,
          existing_urls, existing_names, added_links, answer>>

\* the arguments of the constructor and what the caller keeps of earlier calls
engine == <<original_urls, video_categories, duplicate_threshold, history>>

\* the DuplicateFilter instance and what its caller has seen
duplicate_filter == <<existing_urls, existing_names, added_links, answer>>

layers == <<case_deduped, case_duplicates, fuzzy_deduped,
            fuzzy_duplicates, domain_deduped, domain_duplicates, original_deduped,
            original_filtered, semantic_deduped, semantic_duplicates>>

\* the dict a reference points to
Deref(resource) == candidates[resource]

\* mutant: a missing name reads as the text of None
name_of_or_None(resource) == Get(Deref(resource), "name", <<"N", "o", "n", "e">>)

name_of(resource) == Get(Deref(resource), "name", <<>>)
url_of(resource) == Get(Deref(resource), "url", <<>>)
description_of(resource) == Get(Deref(resource), "description", <<>>)
category_of(resource) == Get(Deref(resource), "category", "")

(***************************************************************************)
(* Program constants                                                       *)
(***************************************************************************)
LevenshteinThreshold == 2
VideoLevenshteinThreshold == 1
SemanticThreshold == 85
VideoSemanticThreshold == 88
\* duplicate_threshold = 0.3, in tenths
DuplicateThresholdTenths == 3

(***************************************************************************)
(* Layer 1: DedupEngine._dedup_by_case                                     *)
(***************************************************************************)
RECURSIVE CaseLoop(_, _, _, _, _)
CaseLoop(resources, k, seen_titles, deduplicated, duplicates) ==
    IF k > Len(resources) THEN <<deduplicated, duplicates>>
    ELSE LET resource == resources[k]
             title == Lower(name_of(resource))
         IN  IF title \in seen_titles
             THEN CaseLoop(resources, k + 1, seen_titles,
                           deduplicated, Append(duplicates, resource))
             ELSE CaseLoop(resources, k + 1, seen_titles \cup {title},
                           Append(deduplicated, resource), duplicates)

RECURSIVE CaseSensitiveLoop(_, _, _, _, _)
CaseSensitiveLoop(resources, k, seen_titles, deduplicated, duplicates) ==
    IF k > Len(resources) THEN <<deduplicated, duplicates>>
    ELSE IF name_of(resources[k]) \in seen_titles
         THEN CaseSensitiveLoop(resources, k + 1, seen_titles,
                                deduplicated, Append(duplicates, resources[k]))
         ELSE CaseSensitiveLoop(resources, k + 1,
                                seen_titles \cup {name_of(resources[k])},
                                Append(deduplicated, resources[k]), duplicates)

\* mutant: the titles are compared without .lower()
_dedup_by_case_sensitive(resources) == CaseSensitiveLoop(resources, 1, {}, <<>>, <<>>)

\* mutant: the seen titles are kept on the engine: a call starts from the
\* titles of the resources that earlier calls returned
_dedup_by_case_remembering(resources) ==
    CaseLoop(resources, 1,
             UNION {{Lower(Get(history[c].candidates[history[c].returned[k]], "name", <<>>)) :
                         k \in 1..Len(history[c].returned)} : c \in 1..Len(history)},
             <<>>, <<>>)

_dedup_by_case(resources) == CaseLoop(resources, 1, {}, <<>>, <<>>)

(***************************************************************************)
(* Layer 2: DedupEngine._dedup_by_levenshtein                              *)
(***************************************************************************)
\* local_threshold of a resource
FuzzyLocalThreshold(category) ==
    IF category \in video_categories
    THEN VideoLevenshteinThreshold ELSE LevenshteinThreshold

\* mutant: `distance < local_threshold`
FuzzyIsDuplicateStrict(title, reference_titles, local_threshold) ==
    \E r \in 1..Len(reference_titles) :
        LevenshteinDistance(Lower(title), Lower(reference_titles[r])) < local_threshold

\* mutant: only a reference title that is not longer than the title counts
FuzzyIsDuplicateOfShorter(title, reference_titles, local_threshold) ==
    \E r \in 1..Len(reference_titles) :
        /\ Len(reference_titles[r]) <= Len(title)
        /\ LevenshteinDistance(Lower(title), Lower(reference_titles[r])) <= local_threshold

\* the inner loop: some reference title is within the threshold
FuzzyIsDuplicate(title, reference_titles, local_threshold) ==
    \E r \in 1..Len(reference_titles) :
        LevenshteinDistance(Lower(title), Lower(reference_titles[r])) <= local_threshold

\* mutant: the title of a rejected resource becomes a reference title too
RECURSIVE LevenshteinLoopKeepingRejected(_, _, _, _, _)
LevenshteinLoopKeepingRejected(resources, k, reference_titles, deduplicated, duplicates) ==
    IF k > Len(resources) THEN <<deduplicated, duplicates>>
    ELSE LET resource == resources[k]
             title == name_of(resource)
             category == category_of(resource)
             local_threshold == FuzzyLocalThreshold(category)
         IN  IF FuzzyIsDuplicate(title, reference_titles, local_threshold)
             THEN LevenshteinLoopKeepingRejected(resources, k + 1,
                                  Append(reference_titles, title),
                                  deduplicated, Append(duplicates, resource))
             ELSE LevenshteinLoopKeepingRejected(resources, k + 1,
                                  Append(reference_titles, title),
                                  Append(deduplicated, resource), duplicates)

RECURSIVE LevenshteinLoop(_, _, _, _, _)
LevenshteinLoop(resources, k, reference_titles, deduplicated, duplicates) ==
    IF k > Len(resources) THEN <<deduplicated, duplicates>>
    ELSE LET resource == resources[k]
             title == name_of(resource)
             category == category_of(resource)
             local_threshold == FuzzyLocalThreshold(category)
         IN  IF FuzzyIsDuplicate(title, reference_titles, local_threshold)
             THEN LevenshteinLoop(resources, k + 1, reference_titles,
                                  deduplicated, Append(duplicates, resource))
             ELSE LevenshteinLoop(resources, k + 1, Append(reference_titles, title),
                                  Append(deduplicated, resource), duplicates)

_dedup_by_levenshtein(resources) == LevenshteinLoop(resources, 1, <<>>, <<>>, <<>>)

(***************************************************************************)
(* Layer 3: DedupEngine._dedup_by_domain_and_title                         *)
(***************************************************************************)
\* hostname_title_key = f"{hostname}:{title}"
HostnameTitleKey(hostname, title) == hostname \o <<":">> \o title

RECURSIVE DomainLoop(_, _, _, _, _, _)
DomainLoop(resources, k, seen_canonical_urls, seen_hostname_titles, deduplicated, duplicates) ==
    IF k > Len(resources) THEN <<deduplicated, duplicates>>
    ELSE LET resource == resources[k]
             url == url_of(resource)
             title == Lower(name_of(resource))
             canonical_url == _get_canonical_url(url)
             hostname == _get_hostname(url)
             hostname_title_key == HostnameTitleKey(hostname, title)
         IN  IF \/ canonical_url \in seen_canonical_urls
                \/ hostname_title_key \in seen_hostname_titles
             THEN DomainLoop(resources, k + 1, seen_canonical_urls,
                             seen_hostname_titles,
                             deduplicated, Append(duplicates, resource))
             ELSE DomainLoop(resources, k + 1,
                             seen_canonical_urls \cup {canonical_url},
                             seen_hostname_titles \cup {hostname_title_key},
                             Append(deduplicated, resource), duplicates)

\* mutant: only the hostname_title_key decides, the canonical URL is not
\* looked up
_dedup_by_hostname_title_only(resources) ==
    LET keys == [k \in 1..Len(resources) |->
                    HostnameTitleKey(_get_hostname(url_of(resources[k])),
                                     Lower(name_of(resources[k])))]
        dup(k) == \E h \in 1..(k - 1) : keys[h] = keys[k]
    IN  <<SelectSeq(resources, LAMBDA x : \A k \in 1..Len(resources) : resources[k] = x => ~dup(k)),
          SelectSeq(resources, LAMBDA x : \E k \in 1..Len(resources) : resources[k] = x /\ dup(k))>>

_dedup_by_domain_and_title(resources) == DomainLoop(resources, 1, {}, {}, <<>>, <<>>)

(***************************************************************************)
(* Layer 3b: DedupEngine._filter_original_urls                             *)
(***************************************************************************)
\* mutant: the canonical URLs of the original list are not compared
IsOriginalRawOnly(url) == url \in original_urls

\* mutant: the canonical URL is looked up in the raw set
IsOriginalUncanonicalised(url) == _get_canonical_url(url) \in original_urls

\* mutant: a URL on the host of a known URL counts as known
IsOriginalByHostname(url) ==
    _get_hostname(url) \in {_get_hostname(o_url) : o_url \in original_urls}

\* whether the resource goes to `original`
IsOriginal(url) ==
    \/ url \in original_urls
    \/ LET canonical_url == _get_canonical_url(url)
           original_canonicals == {_get_canonical_url(o_url) : o_url \in original_urls}
       IN  canonical_url \in original_canonicals

RECURSIVE OriginalLoop(_, _, _, _)
OriginalLoop(resources, k, filtered, original) ==
    IF k > Len(resources) THEN <<filtered, original>>
    ELSE LET resource == resources[k]
             url == url_of(resource)
         IN  IF IsOriginal(url)
             THEN OriginalLoop(resources, k + 1, filtered, Append(original, resource))
             ELSE OriginalLoop(resources, k + 1, Append(filtered, resource), original)

_filter_original_urls(resources) == OriginalLoop(resources, 1, <<>>, <<>>)

(***************************************************************************)
(* Layer 4: DedupEngine._dedup_by_semantic                                 *)
(***************************************************************************)
\* text = f"{title} {description}".strip()
TextOf(resource) == Strip(name_of(resource) \o <<" ">> \o description_of(resource))

\* texts, one per resource, in the order of the resources
Texts(resources) == [i \in 1..Len(resources) |-> TextOf(resources[i])]

\* local_threshold of a resource
SemanticLocalThreshold(category) ==
    IF category \in video_categories THEN VideoSemanticThreshold ELSE SemanticThreshold

\* mutant: the category of the previously selected resource is not consulted
SemanticPairIsDuplicateOneSided(embedding, category, unique_embedding, unique_category) ==
    /\ dot(embedding, unique_embedding) >= SemanticLocalThreshold(category)
    /\ \/ category = unique_category
       \/ category \in video_categories

\* the condition of the inner loop for one previously selected resource
SemanticPairIsDuplicate(embedding, category, unique_embedding, unique_category) ==
    /\ dot(embedding, unique_embedding) >= SemanticLocalThreshold(category)
    /\ \/ category = unique_category
       \/ category \in video_categories
       \/ unique_category \in video_categories

RECURSIVE SemanticLoop(_, _, _, _, _, _, _, _)
SemanticLoop(resources, embeddings, categories, i, deduplicated, duplicates, deduplicated_embeddings, deduplicated_categories) ==
    IF i > Len(resources) THEN <<deduplicated, duplicates>>
    ELSE LET resource == resources[i]
             embedding == embeddings[i]
             category == categories[i]
             is_duplicate ==
                 \E j \in 1..Len(deduplicated_embeddings) :
                     SemanticPairIsDuplicate(embedding, category,
                         deduplicated_embeddings[j], deduplicated_categories[j])
         IN  IF is_duplicate
             THEN SemanticLoop(resources, embeddings, categories, i + 1,
                               deduplicated, Append(duplicates, resource),
                               deduplicated_embeddings, deduplicated_categories)
             ELSE SemanticLoop(resources, embeddings, categories, i + 1,
                               Append(deduplicated, resource), duplicates,
                               Append(deduplicated_embeddings, embedding),
                               Append(deduplicated_categories, category))

\* mutant: the selected resources are returned last first
_dedup_by_semantic_reversed(resources) ==
    IF resources = <<>> THEN <<<<>>, <<>>>>
    ELSE LET r == SemanticLoop(resources,
                      [i \in 1..Len(resources) |-> encode(TextOf(resources[i]))],
                      [i \in 1..Len(resources) |-> category_of(resources[i])],
                      1, <<>>, <<>>, <<>>, <<>>)
         IN  <<[i \in 1..Len(r[1]) |-> r[1][Len(r[1]) + 1 - i]], r[2]>>

_dedup_by_semantic(resources) ==
    IF resources = <<>> THEN <<<<>>, <<>>>>
    ELSE LET texts == Texts(resources)
             categories == [i \in 1..Len(resources) |-> category_of(resources[i])]
             embeddings == [i \in 1..Len(texts) |-> encode(texts[i])]
         IN  SemanticLoop(resources, embeddings, categories, 1,
                          <<>>, <<>>, <<>>, <<>>)

(***************************************************************************)
(* DedupEngine.deduplicate_resources, one action per step                  *)
(***************************************************************************)
\* the number of calls made on one engine
MaxCalls == 3

\* references to all the dicts of the input list, in order
AllOf(list) == [i \in 1..Len(list) |-> i]

NoStats ==
    [candidates |-> 0, case_filtered |-> 0, fuzzy_filtered |-> 0,
     domain_filtered |-> 0, semantic_filtered |-> 0, original_filtered |-> 0,
     final |-> 0]

\* log_phase and log._LOGGER.info append events to run_dir/agent.log
Log(events) == [files EXCEPT !.agent_log = @ \o events]

\* `if not candidates: return []`
ReturnEmpty ==
    /\ pc = "call"
    /\ candidates = <<>>
    /\ files' = Log(<<"start", "end">>)
    /\ returned' = <<>>
    /\ pc' = "done"
    /\ UNCHANGED <<candidates, engine, duplicate_filter, raised, provider_calls, sentence_transformer,
                   dedup_stats, layers, duplicate_ratio, warned>>

\* dedup_stats = {"candidates": len(candidates), ...}
Begin ==
    /\ pc = "call"
    /\ candidates # <<>>
    /\ files' = Log(<<"start">>)
    /\ dedup_stats' = [NoStats EXCEPT !.candidates = Len(candidates)]
    /\ pc' = "layer1"
    /\ UNCHANGED <<candidates, engine, duplicate_filter, raised, provider_calls, sentence_transformer,
                   layers, duplicate_ratio, warned, returned>>

Layer1 ==
    /\ pc = "layer1"
    /\ LET r == _dedup_by_case(AllOf(candidates))
       IN  /\ case_deduped' = r[1]
           /\ case_duplicates' = r[2]
           /\ dedup_stats' = [dedup_stats EXCEPT !.case_filtered = Len(r[2])]
    /\ pc' = "layer2"
    /\ UNCHANGED <<candidates, engine, duplicate_filter, raised, provider_calls, sentence_transformer,
                   fuzzy_deduped, fuzzy_duplicates, domain_deduped, domain_duplicates,
                   original_deduped, original_filtered, semantic_deduped,
                   semantic_duplicates, duplicate_ratio, warned, files, returned>>

\* mutant: fuzzy_filtered is not recorded
Layer2NotCounting ==
    /\ pc = "layer2"
    /\ LET r == _dedup_by_levenshtein(case_deduped)
       IN  /\ fuzzy_deduped' = r[1]
           /\ fuzzy_duplicates' = r[2]
    /\ pc' = "layer3"
    /\ UNCHANGED <<candidates, engine, duplicate_filter, raised, provider_calls, sentence_transformer,
                   case_deduped, case_duplicates, domain_deduped, domain_duplicates,
                   original_deduped, original_filtered, semantic_deduped,
                   semantic_duplicates, duplicate_ratio, warned, files, returned,
                   dedup_stats>>

Layer2 ==
    /\ pc = "layer2"
    /\ LET r == _dedup_by_levenshtein(case_deduped)
       IN  /\ fuzzy_deduped' = r[1]
           /\ fuzzy_duplicates' = r[2]
           /\ dedup_stats' = [dedup_stats EXCEPT !.fuzzy_filtered = Len(r[2])]
    /\ pc' = "layer3"
    /\ UNCHANGED <<candidates, engine, duplicate_filter, raised, provider_calls, sentence_transformer,
                   case_deduped, case_duplicates, domain_deduped, domain_duplicates,
                   original_deduped, original_filtered, semantic_deduped,
                   semantic_duplicates, duplicate_ratio, warned, files, returned>>

\* mutant: layer 3 is given the survivors of layer 1, not of layer 2
Layer3OnCaseDeduped ==
    /\ pc = "layer3"
    /\ LET r == _dedup_by_domain_and_title(case_deduped)
       IN  /\ domain_deduped' = r[1]
           /\ domain_duplicates' = r[2]
           /\ dedup_stats' = [dedup_stats EXCEPT !.domain_filtered = Len(r[2])]
    /\ pc' = "layer3b"
    /\ UNCHANGED <<candidates, engine, duplicate_filter, raised, provider_calls, sentence_transformer,
                   case_deduped, case_duplicates, fuzzy_deduped, fuzzy_duplicates,
                   original_deduped, original_filtered, semantic_deduped,
                   semantic_duplicates, duplicate_ratio, warned, files, returned>>

Layer3 ==
    /\ pc = "layer3"
    /\ LET r == _dedup_by_domain_and_title(fuzzy_deduped)
       IN  /\ domain_deduped' = r[1]
           /\ domain_duplicates' = r[2]
           /\ dedup_stats' = [dedup_stats EXCEPT !.domain_filtered = Len(r[2])]
    /\ pc' = "layer3b"
    /\ UNCHANGED <<candidates, engine, duplicate_filter, raised, provider_calls, sentence_transformer,
                   case_deduped, case_duplicates, fuzzy_deduped, fuzzy_duplicates,
                   original_deduped, original_filtered, semantic_deduped,
                   semantic_duplicates, duplicate_ratio, warned, files, returned>>

\* mutant: the URLs of the resources that pass the filter are added to the
\* known set
Layer3bAddingAccepted ==
    /\ pc = "layer3b"
    /\ LET r == _filter_original_urls(domain_deduped)
       IN  /\ original_deduped' = r[1]
           /\ original_filtered' = r[2]
           /\ dedup_stats' = [dedup_stats EXCEPT !.original_filtered = Len(r[2])]
           /\ original_urls' = original_urls \cup {url_of(r[1][i]) : i \in 1..Len(r[1])}
    /\ pc' = "layer4"
    /\ UNCHANGED <<candidates, video_categories, duplicate_threshold, history,
                   duplicate_filter,
                   raised, provider_calls, sentence_transformer,
                   case_deduped, case_duplicates, fuzzy_deduped, fuzzy_duplicates,
                   domain_deduped, domain_duplicates, semantic_deduped,
                   semantic_duplicates, duplicate_ratio, warned, files, returned>>

\* mutant: the filter is given the survivors of layer 2, not of layer 3
Layer3bOnFuzzyDeduped ==
    /\ pc = "layer3b"
    /\ LET r == _filter_original_urls(fuzzy_deduped)
       IN  /\ original_deduped' = r[1]
           /\ original_filtered' = r[2]
           /\ dedup_stats' = [dedup_stats EXCEPT !.original_filtered = Len(r[2])]
    /\ pc' = "layer4"
    /\ UNCHANGED <<candidates, engine, duplicate_filter, raised, provider_calls, sentence_transformer,
                   case_deduped, case_duplicates, fuzzy_deduped, fuzzy_duplicates,
                   domain_deduped, domain_duplicates, semantic_deduped,
                   semantic_duplicates, duplicate_ratio, warned, files, returned>>

Layer3b ==
    /\ pc = "layer3b"
    /\ LET r == _filter_original_urls(domain_deduped)
       IN  /\ original_deduped' = r[1]
           /\ original_filtered' = r[2]
           /\ dedup_stats' = [dedup_stats EXCEPT !.original_filtered = Len(r[2])]
    /\ pc' = "layer4"
    /\ UNCHANGED <<candidates, engine, duplicate_filter, raised, provider_calls, sentence_transformer,
                   case_deduped, case_duplicates, fuzzy_deduped, fuzzy_duplicates,
                   domain_deduped, domain_duplicates, semantic_deduped,
                   semantic_duplicates, duplicate_ratio, warned, files, returned>>

\* mutant: the provider is called once per resource
Layer4EncodingOneByOne ==
    /\ pc = "layer4"
    /\ LET r == _dedup_by_semantic(original_deduped)
       IN  /\ semantic_deduped' = r[1]
           /\ semantic_duplicates' = r[2]
           /\ dedup_stats' = [dedup_stats EXCEPT !.semantic_filtered = Len(r[2])]
    /\ sentence_transformer' =
           IF original_deduped = <<>> THEN sentence_transformer ELSE "loaded"
    /\ provider_calls' =
           provider_calls \o [i \in 1..Len(original_deduped) |->
                                 <<TextOf(original_deduped[i])>>]
    /\ pc' = "finish"
    /\ UNCHANGED <<candidates, engine, duplicate_filter, raised,
                   case_deduped, case_duplicates, fuzzy_deduped, fuzzy_duplicates,
                   domain_deduped, domain_duplicates, original_deduped,
                   original_filtered, duplicate_ratio, warned, files, returned>>

Layer4 ==
    /\ pc = "layer4"
    /\ LET r == _dedup_by_semantic(original_deduped)
       IN  /\ semantic_deduped' = r[1]
           /\ semantic_duplicates' = r[2]
           /\ dedup_stats' = [dedup_stats EXCEPT !.semantic_filtered = Len(r[2])]
    \* the model is loaded on the first call that has resources left
    /\ sentence_transformer' =
           IF original_deduped = <<>> THEN sentence_transformer ELSE "loaded"
    \* one encode call with all the texts, none when no resource is left
    /\ provider_calls' =
           IF original_deduped = <<>> THEN provider_calls
           ELSE Append(provider_calls, Texts(original_deduped))
    /\ pc' = "finish"
    /\ UNCHANGED <<candidates, engine, duplicate_filter, raised,
                   case_deduped, case_duplicates, fuzzy_deduped, fuzzy_duplicates,
                   domain_deduped, domain_duplicates, original_deduped,
                   original_filtered, duplicate_ratio, warned, files, returned>>

\* SentenceTransformer(...) or sentence_transformer.encode raises: nothing in
\* _dedup_by_semantic, deduplicate_resources or log_phase catches it
Layer4Raises ==
    /\ pc = "layer4"
    /\ original_deduped # <<>>
    /\ \/ /\ sentence_transformer = "None"
          /\ UNCHANGED <<sentence_transformer, provider_calls>>
       \/ /\ sentence_transformer' = "loaded"
          /\ provider_calls' = Append(provider_calls, Texts(original_deduped))
    /\ raised' = "EmbeddingError"
    /\ pc' = "raised"
    /\ UNCHANGED <<candidates, engine, duplicate_filter, dedup_stats, layers, duplicate_ratio, warned,
                   files, returned>>

\* duplicate_ratio > self.duplicate_threshold, the ratio a pair
\* <<numerator, denominator>> and the threshold in tenths
ExceedsThreshold(ratio) == 10 * ratio[1] > duplicate_threshold * ratio[2]

\* the dicts a list of references points to, as json.dump writes them
Dicts(resources) == [i \in 1..Len(resources) |-> Deref(resources[i])]

\* mutant: the ValueError of the docstring is raised when the ratio exceeds
\* the threshold, before anything is saved
FinishRaising ==
    /\ pc = "finish"
    /\ LET stats == [dedup_stats EXCEPT !.final = Len(semantic_deduped)]
           ratio == <<stats.candidates - stats.final,
                      IF stats.candidates > 1 THEN stats.candidates ELSE 1>>
       IN  /\ dedup_stats' = stats
           /\ duplicate_ratio' = ratio
           /\ warned' = ExceedsThreshold(ratio)
           /\ IF ExceedsThreshold(ratio)
              THEN /\ raised' = "ValueError"
                   /\ pc' = "raised"
                   /\ UNCHANGED <<files, returned>>
              ELSE /\ files' = [dedup_stats_json |-> <<stats>>,
                                new_links_json |-> <<Dicts(semantic_deduped)>>,
                                agent_log |-> files.agent_log
                                    \o <<"deduplication_complete", "end">>]
                   /\ returned' = semantic_deduped
                   /\ pc' = "done"
                   /\ UNCHANGED raised
    /\ UNCHANGED <<candidates, engine, duplicate_filter, provider_calls, sentence_transformer, layers>>

\* mutant: the statistics are saved before the final count is set
FinishSavingEarly ==
    /\ pc = "finish"
    /\ LET stats == [dedup_stats EXCEPT !.final = Len(semantic_deduped)]
           ratio == <<stats.candidates - stats.final,
                      IF stats.candidates > 1 THEN stats.candidates ELSE 1>>
       IN  /\ dedup_stats' = stats
           /\ duplicate_ratio' = ratio
           /\ warned' = ExceedsThreshold(ratio)
           /\ files' = [dedup_stats_json |-> <<dedup_stats>>,
                        new_links_json |-> <<Dicts(semantic_deduped)>>,
                        agent_log |-> files.agent_log
                            \o <<"deduplication_complete", "end">>]
    /\ returned' = semantic_deduped
    /\ pc' = "done"
    /\ UNCHANGED <<candidates, engine, duplicate_filter, raised, provider_calls, sentence_transformer,
                   layers>>

\* final count, duplicate ratio, warning, the two saved files, return
Finish ==
    /\ pc = "finish"
    /\ LET stats == [dedup_stats EXCEPT !.final = Len(semantic_deduped)]
           ratio == <<stats.candidates - stats.final,
                      IF stats.candidates > 1 THEN stats.candidates ELSE 1>>
       IN  /\ dedup_stats' = stats
           /\ duplicate_ratio' = ratio
           /\ warned' = ExceedsThreshold(ratio)
           /\ files' = [dedup_stats_json |-> <<stats>>,
                        new_links_json |-> <<Dicts(semantic_deduped)>>,
                        agent_log |-> files.agent_log
                            \o <<"deduplication_complete", "end">>]
    /\ returned' = semantic_deduped
    /\ pc' = "done"
    /\ UNCHANGED <<candidates, engine, duplicate_filter, raised, provider_calls, sentence_transformer,
                   layers>>

\* one call of deduplicate_resources
Next ==
    \/ ReturnEmpty
    \/ Begin
    \/ Layer1
    \/ Layer2
    \/ Layer3
    \/ Layer3b
    \/ Layer4
    \/ Layer4Raises
    \/ Finish

\* what the caller holds when a call has ended
Outcome ==
    [candidates |-> candidates,
     returned |-> returned,
     raised |-> raised,
     dedup_stats |-> IF pc = "done" /\ candidates # <<>> THEN <<dedup_stats>> ELSE <<>>]

\* the caller calls deduplicate_resources of the same engine again: the
\* locals of the call are fresh, the attributes and the files are kept
CallAgain(list) ==
    /\ pc \in {"done", "raised"}
    /\ Len(history) + 1 < MaxCalls
    /\ history' = Append(history, Outcome)
    /\ candidates' = list
    /\ pc' = "call"
    /\ dedup_stats' = NoStats
    /\ case_deduped' = <<>> /\ case_duplicates' = <<>>
    /\ fuzzy_deduped' = <<>> /\ fuzzy_duplicates' = <<>>
    /\ domain_deduped' = <<>> /\ domain_duplicates' = <<>>
    /\ original_deduped' = <<>> /\ original_filtered' = <<>>
    /\ semantic_deduped' = <<>> /\ semantic_duplicates' = <<>>
    /\ duplicate_ratio' = <<>>
    /\ warned' = FALSE
    /\ returned' = <<>>
    /\ raised' = "none"
    /\ provider_calls' = <<>>
    /\ UNCHANGED <<original_urls, video_categories, duplicate_threshold,
                   sentence_transformer, files, duplicate_filter>>

(***************************************************************************)
(* Inputs: candidate lists, known-URL sets and category configurations     *)
(***************************************************************************)
\* the longest candidate list of a run
MaxCandidates == 3

Res(n, u, d, c) == [name |-> n, url |-> u, description |-> d, category |-> c]

HTTPS == <<"h", "t", "t", "p", "s">>
HTTP == <<"h", "t", "t", "p">>

\* an absolute URL written from its parts:
\* scheme://[www.]host path [/] tail, tail a query, a fragment or nothing
FormatUrl(parts) ==
    parts.scheme \o <<":", "/", "/">> \o (IF parts.www THEN WWW ELSE <<>>)
        \o parts.host \o parts.path \o (IF parts.slash THEN <<"/">> ELSE <<>>)
        \o parts.tail

Parts(s, w, h, p, sl, t) ==
    [scheme |-> s, www |-> w, host |-> h, path |-> p, slash |-> sl, tail |-> t]

UrlPartsPool ==
    { Parts(HTTPS, FALSE, <<"x", ".", "c">>, <<"/", "f">>, FALSE, <<>>),
      Parts(HTTPS, FALSE, <<"x", ".", "c">>, <<"/", "f">>, TRUE, <<>>),
      Parts(HTTP, TRUE, <<"X", ".", "c">>, <<"/", "F">>, FALSE, <<>>),
      Parts(HTTPS, FALSE, <<"x", ".", "c">>, <<"/", "f">>, TRUE, <<"?", "a">>),
      Parts(HTTPS, FALSE, <<"x", ".", "c">>, <<"/", "f">>, FALSE, <<"#", "s">>),
      Parts(HTTPS, FALSE, <<"x", ".", "c">>, <<"/", "g">>, FALSE, <<>>),
      Parts(HTTPS, FALSE, <<"y", ".", "c">>, <<"/", "f">>, FALSE, <<>>),
      Parts(HTTPS, TRUE, <<"x", ".", "c">>, <<>>, TRUE, <<>>) }

\* names at pairwise Levenshtein distance 4, and URLs on pairwise different
\* hosts, for the candidates of a list that must differ in name and URL
PosNames ==
    << <<"a", "a", "a", "a">>, <<"b", "b", "b", "b">>, <<"c", "c", "c", "c">>,
       <<"d", "d", "d", "d">>, <<"e", "e", "e", "e">>, <<"g", "g", "g", "g">> >>

PosUrl(i) == HTTPS \o <<":", "/", "/">> \o <<PosNames[i][1], ".", "c", "/", "f">>

U_xf == HTTPS \o <<":", "/", "/", "x", ".", "c", "/", "f">>
U_xf_slash == HTTPS \o <<":", "/", "/", "x", ".", "c", "/", "f", "/">>
U_wwwXF == HTTP \o <<":", "/", "/", "w", "w", "w", ".", "X", ".", "c", "/", "F">>
U_xg == HTTPS \o <<":", "/", "/", "x", ".", "c", "/", "g">>
U_yf == HTTPS \o <<":", "/", "/", "y", ".", "c", "/", "f">>
U_yf_query == HTTPS \o <<":", "/", "/", "y", ".", "c", "/", "f", "?", "a">>
U_wwwyf_slash == HTTPS \o <<":", "/", "/", "w", "w", "w", ".", "y", ".", "c", "/", "f", "/">>

\* a mixed pool: case, fuzzy, canonical-URL, known-URL and semantic duplicates
GeneralPool ==
    { Res(<<"a", "b">>, U_xf, <<"p">>, "lib"),
      Res(<<"A", "B">>, U_xf_slash, <<"q">>, "lib"),
      Res(<<"a", "b", "c">>, U_yf, <<"p">>, "lib"),
      Res(<<"w", "x", "y", "z">>, U_wwwXF, <<"r">>, "tool"),
      Res(<<"m", "n", "n", "o">>, U_xg, <<"q">>, "video"),
      Res(<<"h", "i", "j", "k">>, U_yf_query, <<"s">>, "lib") }

GeneralKnown == { {}, {U_xf}, {U_wwwyf_slash, U_xg} }

\* lowercased, at Levenshtein distances 1, 2 and 3
FuzzyNames ==
    { <<"a", "b">>, <<"A", "B", "C">>, <<"a", "b", "c", "d">>,
      <<"a", "b", "c", "d", "e">> }

FuzzyShapes == FuzzyNames \X {"video", "lib"}

\* <<category, description>>: every similarity of ClassSimilarity between two
\* "lib" candidates and between a "video" and a "lib" candidate
SemanticShapes ==
    ({"lib"} \X {<<"p">>, <<"q">>, <<"r">>, <<"s">>})
        \cup ({"video"} \X {<<"p">>, <<"q">>, <<"r">>})
        \cup {<<"tool", <<"p">>>>}

Lengths == 0..MaxCandidates

\* the candidate at position i of a list, made from an element of a pool
GeneralCandidate(shape, i) == shape

FuzzyCandidate(shape, i) == Res(shape[1], PosUrl(i), <<>>, shape[2])

UrlCandidate(shape, i) == Res(PosNames[i], FormatUrl(shape), <<>>, "lib")

SemanticCandidate(shape, i) == Res(PosNames[i], PosUrl(i), shape[2], shape[1])

UrlKnown == { {U_wwwXF} }

\* AwesomeParser.parse_markdown: url = item_match.group(2).strip();
\* self.original_urls.add(url); main.py hands that set to DedupEngine, whose
\* __init__ stores it as it is
parser_original_urls(item_urls) == {Strip(url) : url \in item_urls}

\* the state when deduplicate_resources is entered on a fresh engine, with
\* a candidate list of at most MaxCandidates elements made from a pool;
\* knowns are the sets of item URLs of the documents parsed
InitRest(knowns, configs, thresholds) ==
    /\ original_urls \in {parser_original_urls(item_urls) : item_urls \in knowns}
    /\ video_categories \in configs
    /\ duplicate_threshold \in thresholds
    /\ sentence_transformer = "None"
    /\ pc = "call"
    /\ dedup_stats = NoStats
    /\ case_deduped = <<>> /\ case_duplicates = <<>>
    /\ fuzzy_deduped = <<>> /\ fuzzy_duplicates = <<>>
    /\ domain_deduped = <<>> /\ domain_duplicates = <<>>
    /\ original_deduped = <<>> /\ original_filtered = <<>>
    /\ semantic_deduped = <<>> /\ semantic_duplicates = <<>>
    /\ duplicate_ratio = <<>>
    /\ warned = FALSE
    /\ files = [dedup_stats_json |-> <<>>, new_links_json |-> <<>>, agent_log |-> <<>>]
    /\ returned = <<>>
    /\ raised = "none"
    /\ provider_calls = <<>>
    /\ history = <<>>
    /\ existing_urls = {} /\ existing_names = {}
    /\ added_links = {}
    /\ answer = <<>>

Init ==
    /\ \E n \in Lengths : \E f \in [1..n -> GeneralPool] :
           candidates = [i \in 1..n |-> GeneralCandidate(f[i], i)]
    /\ InitRest(GeneralKnown, {{}, {"video"}}, {DuplicateThresholdTenths, 10})

InitFuzzy ==
    /\ \E n \in Lengths : \E f \in [1..n -> FuzzyShapes] :
           candidates = [i \in 1..n |-> FuzzyCandidate(f[i], i)]
    /\ InitRest({{}}, {{"video"}}, {DuplicateThresholdTenths})

InitUrl ==
    /\ \E n \in Lengths : \E f \in [1..n -> UrlPartsPool] :
           candidates = [i \in 1..n |-> UrlCandidate(f[i], i)]
    /\ InitRest(UrlKnown, {{}}, {DuplicateThresholdTenths})

InitSemantic ==
    /\ \E n \in Lengths : \E f \in [1..n -> SemanticShapes] :
           candidates = [i \in 1..n |-> SemanticCandidate(f[i], i)]
    /\ InitRest({{}}, {{}, {"video"}}, {DuplicateThresholdTenths})

\* candidate lists of the calls made on one engine: two lists that share a
\* name and a URL, a list of dicts that lack fields, the same list with the
\* empty string in their place, and the empty list
RunA ==
    <<Res(<<"a", "b">>, U_xf, <<"p">>, "lib"),
      Res(<<"w", "x", "y", "z">>, U_wwwXF, <<"r">>, "tool"),
      Res(<<"m", "n", "n", "o">>, U_xg, <<"q">>, "video")>>

RunB ==
    <<Res(<<"A", "B">>, U_yf, <<"q">>, "lib"),
      Res(<<"h", "i", "j", "k">>, U_xf_slash, <<"s">>, "lib")>>

RunLacking ==
    <<[url |-> U_yf, description |-> <<"p">>, category |-> "lib"],
      [name |-> <<"a", "b">>, description |-> <<"p">>, category |-> "lib"],
      [name |-> <<"h", "i", "j", "k">>, url |-> U_xf]>>

RunFilled ==
    <<Res(<<>>, U_yf, <<"p">>, "lib"),
      Res(<<"a", "b">>, <<>>, <<"p">>, "lib"),
      Res(<<"h", "i", "j", "k">>, U_xf, <<>>, "")>>

RunLists == {RunA, RunB, RunLacking, RunFilled, <<>>}

InitRuns ==
    /\ candidates \in RunLists
    /\ InitRest({{U_xg}}, {{"video"}}, {DuplicateThresholdTenths})

\* calls of deduplicate_resources on one engine, one after the other
NextRuns ==
    \/ Next
    \/ \E list \in RunLists : CallAgain(list)

\* URLs that urlparse rejects (a '[' or a ']' alone in the netloc), two of
\* them equal up to letter case, and one that it parses
U_bad == HTTPS \o <<":", "/", "/", "[", "x", ".", "c", "/", "f">>
U_BAD == HTTPS \o <<":", "/", "/", "[", "X", ".", "c", "/", "F">>
U_bad_slash == HTTPS \o <<":", "/", "/", "y", ".", "c", "]", "/", "f", "/">>

BadUrlPool == {U_bad, U_BAD, U_bad_slash, U_xf}

BadUrlCandidate(url, i) == Res(PosNames[i], url, <<>>, "lib")

BadUrlKnown == { {}, {U_bad}, {U_yf} }

InitBadUrl ==
    /\ \E n \in Lengths : \E f \in [1..n -> BadUrlPool] :
           candidates = [i \in 1..n |-> BadUrlCandidate(f[i], i)]
    /\ InitRest(BadUrlKnown, {{}}, {DuplicateThresholdTenths})

\* <<name, description, category>>: names ab - abcd - abcdef at distances 2,
\* 2 and 4, descriptions r - p - s at similarities 0.88, 0.85 and 0.80
ChainShapes ==
    { <<<<"a", "b">>, <<"r">>, "lib">>,
      <<<<"a", "b", "c", "d">>, <<"q">>, "lib">>,
      <<<<"a", "b", "c", "d", "e", "f">>, <<"p">>, "lib">>,
      <<<<"w", "x", "y", "z">>, <<"s">>, "lib">>,
      <<<<"a", "b", "c", "d", "e">>, <<"s">>, "video">> }

ChainLengths == 0..(MaxCandidates + 1)

ChainCandidate(shape, i) == Res(shape[1], PosUrl(i), shape[2], shape[3])

InitChain ==
    /\ \E n \in ChainLengths : \E f \in [1..n -> ChainShapes] :
           candidates = [i \in 1..n |-> ChainCandidate(f[i], i)]
    /\ InitRest({{}}, {{}, {"video"}}, {DuplicateThresholdTenths})

\* a host with a port, and names with a colon: "x.c" + ":" + "80:a" and
\* "x.c:80" + ":" + "a" are the same hostname_title_key
U_xport_g == HTTPS \o <<":", "/", "/", "x", ".", "c", ":", "8", "0", "/", "g">>

KeyPool ==
    { Res(<<"8", "0", ":", "a">>, U_xf, <<"r">>, "lib"),
      Res(<<"8", "0", ":", "A">>, U_xf_slash, <<"r">>, "lib"),
      Res(<<"a">>, U_xport_g, <<"s">>, "lib"),
      Res(<<"w", "x", "y", "z">>, U_yf, <<"s">>, "lib"),
      Res(<<"h", "i", "j", "k">>, U_yf_query, <<"q">>, "lib") }

InitKey ==
    /\ \E n \in Lengths : \E f \in [1..n -> KeyPool] :
           candidates = [i \in 1..n |-> GeneralCandidate(f[i], i)]
    /\ InitRest({{}}, {{}}, {DuplicateThresholdTenths, 10})

\* <<name, description, category>> for lists of two: names at distances 2
\* and 4, similarities 0.96, 0.85 and 0.50, categories in and out of the
\* configured set
PairShapes ==
    {<<"a", "b">>, <<"a", "b", "c", "d">>, <<"w", "x", "y", "z">>}
        \X {<<"p">>, <<"s">>} \X {"video", "lib", "tool"}

PairLengths == 0..2

Reverse(list) == [i \in 1..Len(list) |-> list[Len(list) + 1 - i]]

InitPair ==
    /\ \E n \in PairLengths : \E f \in [1..n -> PairShapes] :
           candidates = [i \in 1..n |-> ChainCandidate(f[i], i)]
    /\ InitRest({{}}, {{}, {"video"}}, {DuplicateThresholdTenths})

\* the caller calls deduplicate_resources again with the same resources in
\* the opposite order
CallReversed == CallAgain(Reverse(candidates))

NextPair ==
    \/ Next
    \/ CallReversed

(***************************************************************************)
(* DuplicateFilter, src/awesome_list_researcher/duplicate_filter.py        *)
(***************************************************************************)
\* similarity_threshold: float = 80.0
SimilarityThreshold == 80

HttpsWww == HTTPS \o <<":", "/", "/", "w", "w", "w", ".">>
HttpsPrefix == HTTPS \o <<":", "/", "/">>

\* norm_url.replace(old, new) for a norm_url that starts with old and has
\* no other occurrence of it
ReplacePrefix(norm_url, old, new) == new \o Slice(norm_url, Len(old), Len(norm_url))

\* the alternative spelling looked up after the exact one (<<>> when none)
AltUrls(norm_url) ==
    IF StartsWith(norm_url, HttpsWww)
    THEN {ReplacePrefix(norm_url, HttpsWww, HttpsPrefix)}
    ELSE IF StartsWith(norm_url, HttpsPrefix)
    THEN {ReplacePrefix(norm_url, HttpsPrefix, HttpsWww)}
    ELSE {}

_is_duplicate_url(url) ==
    LET norm_url == RStrip(Lower(url), "/")
    IN  \/ norm_url \in existing_urls
        \/ \E alt_url \in AltUrls(norm_url) : alt_url \in existing_urls

\* length of a longest common subsequence
RECURSIVE LCS(_, _)
LCS(s, t) ==
    IF s = <<>> \/ t = <<>> THEN 0
    ELSE IF s[1] = t[1] THEN 1 + LCS(Tail(s), Tail(t))
    ELSE LET a == LCS(Tail(s), t)
             b == LCS(s, Tail(t))
         IN  IF a >= b THEN a ELSE b

\* rapidfuzz.fuzz.ratio(s, t) >= score, the ratio being
\* 100 * 2 * LCS / (len(s) + len(t)) (100 for two empty strings)
RatioAtLeast(s, t, score) == 200 * LCS(s, t) >= score * (Len(s) + Len(t))

\* the exact match, then the best fuzzy matches against the threshold
_is_duplicate_name(name) ==
    LET norm_name == Lower(name)
    IN  \/ norm_name \in existing_names
        \/ \E match \in existing_names :
               RatioAtLeast(norm_name, match, SimilarityThreshold)

\* the value is_duplicate returns for a candidate
IsDuplicateValue(candidate) ==
    _is_duplicate_url(candidate.url) \/ _is_duplicate_name(candidate.name)

add_existing_links(links) ==
    /\ existing_urls' = existing_urls \cup {Lower(links[i].url) : i \in 1..Len(links)}
    /\ existing_names' = existing_names \cup {Lower(links[i].name) : i \in 1..Len(links)}
    /\ added_links' = added_links \cup {links[i] : i \in 1..Len(links)}
    /\ answer' = <<>>
    /\ UNCHANGED <<candidates, engine, sentence_transformer, pc, dedup_stats, layers,
                   duplicate_ratio, warned, files, returned, raised, provider_calls>>

is_duplicate(candidate) ==
    /\ answer' = <<candidate, IsDuplicateValue(candidate)>>
    /\ UNCHANGED <<existing_urls, existing_names, added_links>>
    /\ UNCHANGED <<candidates, engine, sentence_transformer, pc, dedup_stats, layers,
                   duplicate_ratio, warned, files, returned, raised, provider_calls>>

U_XF_upper == HTTPS \o <<":", "/", "/", "X", ".", "C", "/", "F">>
U_wwwxg == HTTPS \o <<":", "/", "/", "w", "w", "w", ".", "x", ".", "c", "/", "g">>

Link(n, u) == [name |-> n, url |-> u]

\* the links of the parsed list: with and without a trailing slash
FilterLinks ==
    { Link(<<"a", "b", "c", "d">>, U_xf_slash),
      Link(<<"m", "n", "n", "o">>, U_yf),
      Link(<<"h", "i", "j", "k">>, U_wwwxg),
      Link(<<"A", "B", "C", "D">>, U_wwwyf_slash) }

MaxLinks == 2

\* candidates: names far from the names of the links and one close to one
FilterCandidates ==
    { Link(n, u) : n \in {<<"w", "x", "y", "z">>, <<"a", "b", "c", "d", "e">>},
                   u \in {U_xf, U_xf_slash, U_XF_upper, U_yf, U_xg, U_xport_g} }

InitFilter ==
    /\ candidates = <<>>
    /\ InitRest({{}}, {{}}, {DuplicateThresholdTenths})

NextFilter ==
    \/ \E n \in 0..MaxLinks : \E links \in [1..n -> FilterLinks] : add_existing_links(links)
    \/ \E candidate \in FilterCandidates : is_duplicate(candidate)

Spec == Init /\ [][Next]_vars

SpecFilter == InitFilter /\ [][NextFilter]_vars

SpecPair == InitPair /\ [][NextPair]_vars

SpecKey == InitKey /\ [][Next]_vars

SpecChain == InitChain /\ [][Next]_vars

SpecBadUrl == InitBadUrl /\ [][Next]_vars

SpecRuns == InitRuns /\ [][NextRuns]_vars

SpecFuzzy == InitFuzzy /\ [][Next]_vars

SpecUrl == InitUrl /\ [][Next]_vars

SpecSemantic == InitSemantic /\ [][Next]_vars

(***************************************************************************)
(* Properties                                                              *)
(***************************************************************************)
Range(list) == {list[i] : i \in 1..Len(list)}

\* the positions of deduplicate_resources after each layer has returned
AfterLayer1 == {"layer2", "layer3", "layer3b", "layer4", "finish", "done"}
AfterLayer2 == {"layer3", "layer3b", "layer4", "finish", "done"}
AfterLayer3 == {"layer3b", "layer4", "finish", "done"}
AfterLayer3b == {"layer4", "finish", "done"}
AfterLayer4 == {"finish", "done"}

LowerName(i) == Lower(name_of(i))
Canonical(i) == _get_canonical_url(url_of(i))

\* C1: the layers run in the order case -> fuzzy -> canonical URL -> known-URL
\* filter -> semantic, and the candidates a layer examines (those it keeps
\* and those it removes) are exactly the ones the previous layer kept.
C1_LayersInOrder ==
    [][/\ pc' # pc =>
            <<pc, pc'>> \in {<<"call", "done">>, <<"call", "layer1">>,
                             <<"layer1", "layer2">>, <<"layer2", "layer3">>,
                             <<"layer3", "layer3b">>, <<"layer3b", "layer4">>,
                             <<"layer4", "finish">>, <<"layer4", "raised">>,
                             <<"finish", "done">>}
       /\ pc' = "layer2" =>
            Range(case_deduped') \cup Range(case_duplicates') = 1..Len(candidates)
       /\ pc' = "layer3" =>
            Range(fuzzy_deduped') \cup Range(fuzzy_duplicates') = Range(case_deduped)
       /\ pc' = "layer3b" =>
            Range(domain_deduped') \cup Range(domain_duplicates') = Range(fuzzy_deduped)
       /\ pc' = "layer4" =>
            Range(original_deduped') \cup Range(original_filtered') = Range(domain_deduped)
       /\ pc' = "finish" =>
            Range(semantic_deduped') \cup Range(semantic_duplicates')
                = Range(original_deduped)]_vars

\* a finished run in which layer 2 removed a candidate and two layers after
\* it still had candidates to examine
C1_Witness ==
    /\ pc = "done"
    /\ fuzzy_duplicates # <<>>
    /\ original_filtered # <<>>
    /\ semantic_deduped # <<>>

\* C2: no returned resource has a URL of the known-URL set, nor a canonical
\* URL that is the canonical form of a known URL.
C2_NoKnownUrlReturned ==
    pc = "done" =>
        \A i \in Range(returned) :
            /\ url_of(i) \notin original_urls
            /\ \A o_url \in original_urls : Canonical(i) # _get_canonical_url(o_url)

\* a finished run that returned something and whose known-URL filter removed
\* a candidate that matches the known set by its canonical URL only
C2_Witness ==
    /\ pc = "done"
    /\ returned # <<>>
    /\ \E i \in Range(original_filtered) : url_of(i) \notin original_urls

\* C3: the returned list is a subsequence of the input list: references to
\* input candidates, in strictly increasing input position.
C3_ReturnedIsSubsequence ==
    pc = "done" =>
        /\ Range(returned) \subseteq 1..Len(candidates)
        /\ \A a, b \in 1..Len(returned) : a < b => returned[a] < returned[b]

\* a finished run that returned two candidates and dropped one between them
C3_Witness ==
    /\ pc = "done"
    /\ \E i, j \in Range(returned), k \in 1..Len(candidates) :
           i < k /\ k < j /\ k \notin Range(returned)

\* C4: layer 1 keeps exactly the first candidate of each lowercased name
\* and removes every later one; the later of two candidates whose names are
\* equal ignoring case is never returned.
C4_FirstOccurrenceWins ==
    /\ pc \in AfterLayer1 =>
           \A i \in 1..Len(candidates) :
               LET later == \E j \in 1..(i - 1) : LowerName(j) = LowerName(i)
               IN  /\ i \in Range(case_duplicates) <=> later
                   /\ i \in Range(case_deduped) <=> ~later
    /\ pc = "done" =>
           \A i \in Range(returned) :
               \A j \in 1..(i - 1) : LowerName(j) # LowerName(i)

\* layer 1 removed a candidate whose name differs from an earlier one by
\* letter case only
C4_Witness ==
    /\ pc = "done"
    /\ \E i \in Range(case_duplicates) : \E j \in 1..(i - 1) :
           LowerName(j) = LowerName(i) /\ name_of(j) # name_of(i)

\* the threshold the claims give for a candidate of layer 2
EffectiveThreshold(i) == IF category_of(i) \in video_categories THEN 1 ELSE 2

\* the least distance of candidate i to the names layer 2 accepted before it
\* (0 when there is none)
MinDistance(i) ==
    LET ds == {LevenshteinDistance(LowerName(i), LowerName(a)) :
                   a \in {b \in Range(fuzzy_deduped) : b < i}}
    IN  IF ds = {} THEN 0 ELSE CHOOSE d \in ds : \A e \in ds : d <= e

\* C5: layer 2 removes a candidate iff a name layer 2 accepted before it is
\* at Levenshtein distance (lowercased) <= the effective threshold: 1 for a
\* strict category, 2 otherwise.
C5_FuzzyThreshold ==
    pc \in AfterLayer2 =>
        \A i \in Range(case_deduped) :
            i \in Range(fuzzy_duplicates) <=>
                \E a \in Range(fuzzy_deduped) :
                    /\ a < i
                    /\ LevenshteinDistance(LowerName(i), LowerName(a))
                           <= EffectiveThreshold(i)

\* layer 2 removed a candidate at exactly its threshold and kept one at its
\* threshold plus one
C5_Witness ==
    /\ pc \in AfterLayer2
    /\ \E i \in Range(fuzzy_duplicates) : MinDistance(i) = EffectiveThreshold(i)
    /\ \E i \in Range(fuzzy_deduped) : MinDistance(i) = EffectiveThreshold(i) + 1

\* the canonical form as C6 words it: the URL lowercased, with its scheme, a
\* leading 'www.' and the trailing slash of the path removed, nothing else
WithoutScheme(l, colon) ==
    IF colon > 0 /\ StartsWith(Slice(l, colon + 1, Len(l)), <<"/", "/">>)
    THEN Slice(l, colon + 3, Len(l)) ELSE l

WithoutPathSlash(u, head) == RStrip(head, "/") \o Slice(u, Len(head), Len(u))

WithoutWwwAndSlash(u) == WithoutPathSlash(u, CutAt(u, {"?", "#"}))

NormalisedLower(l) == WithoutWwwAndSlash(StripWww(WithoutScheme(l, Find(l, ":", 0))))

ClaimedCanonical(url) == NormalisedLower(Lower(url))

\* the same with the params, the query string and the fragment removed too
AmendedCanonical(url) == ClaimedCanonical(_splitparams(CutAt(url, {"?", "#"})))

PartsOf(url) == CHOOSE parts \in UrlPartsPool : FormatUrl(parts) = url

\* two URLs differ at most in scheme, letter case of host and path, a
\* leading 'www.' and a trailing slash
SameUpToVariations(p1, p2) ==
    /\ Lower(p1.host) = Lower(p2.host)
    /\ Lower(p1.path) = Lower(p2.path)
    /\ p1.tail = p2.tail

Similarity(i, j) == dot(encode(TextOf(i)), encode(TextOf(j)))

Sensitive(i) == category_of(i) \in video_categories

\* condition (i) of C8
CategoriesAllowMerge(c, a) ==
    category_of(c) = category_of(a) \/ Sensitive(c) \/ Sensitive(a)

\* the bar of C8: 0.88 when either member of the pair is sensitive
ClaimedBar(c, a) == IF Sensitive(c) \/ Sensitive(a) THEN 88 ELSE 85

\* C8: layer 4 removes c iff some candidate a it accepted before has the
\* same category as c or one of the two is cross-category-sensitive, and
\* similarity(c, a) >= 0.88 when either is sensitive, >= 0.85 otherwise.
C8_Claim ==
    pc \in AfterLayer4 =>
        \A c \in Range(original_deduped) :
            c \in Range(semantic_duplicates) <=>
                \E a \in Range(semantic_deduped) :
                    /\ a < c
                    /\ CategoriesAllowMerge(c, a)
                    /\ Similarity(c, a) >= ClaimedBar(c, a)

\* C9 as stated: two candidates of layer 4 in different non-sensitive
\* categories are never merged; two of which one is sensitive and whose
\* similarity is >= 0.88 are always merged, the later one being removed.
C9_Original ==
    pc \in AfterLayer4 =>
        /\ \A c \in Range(semantic_duplicates) :
               \E a \in Range(semantic_deduped) : a < c /\ CategoriesAllowMerge(c, a)
        /\ \A a, c \in Range(original_deduped) :
               (a < c /\ (Sensitive(a) \/ Sensitive(c)) /\ Similarity(c, a) >= 88)
                   => c \in Range(semantic_duplicates)

\* C9 amended: two candidates of layer 4 in different non-sensitive
\* categories are never merged; a candidate is removed whenever a candidate
\* that layer 4 accepted before it is at similarity >= 0.88 and one of the
\* two is sensitive.
C9_CrossCategoryGate ==
    pc \in AfterLayer4 =>
        /\ \A c \in Range(semantic_duplicates) :
               \E a \in Range(semantic_deduped) : a < c /\ CategoriesAllowMerge(c, a)
        /\ \A a \in Range(semantic_deduped), c \in Range(original_deduped) :
               (a < c /\ (Sensitive(a) \/ Sensitive(c)) /\ Similarity(c, a) >= 88)
                   => c \in Range(semantic_duplicates)

\* layer 4 kept two candidates of different non-sensitive categories at
\* similarity 0.95 or more, and removed a candidate at similarity >= 0.88
\* to an accepted one of another category, one of the two being sensitive
C9_Witness ==
    /\ pc \in AfterLayer4
    /\ \E a, c \in Range(semantic_deduped) :
           /\ a < c
           /\ ~CategoriesAllowMerge(c, a)
           /\ Similarity(c, a) >= 95
    /\ \E a \in Range(semantic_deduped), c \in Range(semantic_duplicates) :
           /\ a < c
           /\ Sensitive(a) # Sensitive(c)
           /\ category_of(a) # category_of(c)
           /\ Similarity(c, a) >= 88

\* C10 as stated: a candidate whose URL is an element of the known-URL set
\* is counted in original_filtered and not in domain_filtered.
C10_Original ==
    pc \in AfterLayer3b =>
        \A i \in 1..Len(candidates) :
            url_of(i) \in original_urls =>
                /\ i \in Range(original_filtered)
                /\ i \notin Range(domain_duplicates)

\* C10 amended: a candidate whose URL is an element of the known-URL set
\* and that layers 1 to 3 kept is counted in original_filtered and not in
\* domain_filtered; layer 3 counts such a candidate only as the duplicate
\* of a candidate it accepted before.
C10_KnownUrlCountedAsOriginal ==
    pc \in AfterLayer3b =>
        \A i \in 1..Len(candidates) :
            url_of(i) \in original_urls =>
                /\ i \in Range(domain_deduped) =>
                       (i \in Range(original_filtered) /\ i \notin Range(domain_duplicates))
                /\ i \in Range(domain_duplicates) =>
                       \E j \in Range(domain_deduped) :
                           /\ j < i
                           /\ \/ Canonical(j) = Canonical(i)
                              \/ HostnameTitleKey(_get_hostname(url_of(j)), LowerName(j))
                                     = HostnameTitleKey(_get_hostname(url_of(i)), LowerName(i))

\* the known-URL filter removed a candidate whose URL is in the known set,
\* and layer 3 had removed another candidate with the same canonical URL
C10_Witness ==
    /\ pc \in AfterLayer3b
    /\ \E i \in Range(original_filtered) :
           /\ url_of(i) \in original_urls
           /\ \E j \in Range(domain_duplicates) : Canonical(j) = Canonical(i)

\* C11: no step of deduplicate_resources, to a return or to a raise, changes
\* the known-URL set or the candidate list (length, order, field values).
C11_InputsUnchanged ==
    [][candidates' = candidates /\ original_urls' = original_urls]_vars

\* a call that returned candidates of its list, with a known-URL set that
\* is not empty and that removed one
C11_Witness ==
    /\ pc = "done"
    /\ returned # <<>>
    /\ original_urls # {}
    /\ original_filtered # <<>>

\* the statistics record of a finished run: the candidates, the five counts
\* of removed candidates and the final count
CompleteStats(stats) ==
    /\ stats.candidates = Len(candidates)
    /\ stats.case_filtered = Len(case_duplicates)
    /\ stats.fuzzy_filtered = Len(fuzzy_duplicates)
    /\ stats.domain_filtered = Len(domain_duplicates)
    /\ stats.original_filtered = Len(original_filtered)
    /\ stats.semantic_filtered = Len(semantic_duplicates)
    /\ stats.final = Len(returned)

\* C12: when the embedding provider fails the call raises, returns no list
\* and writes neither the statistics record nor the survivor file; in every
\* other case it returns the survivor list with complete statistics.
C12_Claim ==
    /\ pc = "raised" =>
           /\ raised = "EmbeddingError"
           /\ returned = <<>>
           /\ files.dedup_stats_json = <<>>
           /\ files.new_links_json = <<>>
    /\ pc = "done" =>
           /\ raised = "none"
           /\ returned = semantic_deduped
           /\ files.dedup_stats_json # <<>>
           /\ CompleteStats(files.dedup_stats_json[1])

\* C13: within a run the provider is invoked at most once, only after layers
\* 1 to 3b, with the texts of the survivors of layer 3b in their order, and
\* not at all when layer 3b left no candidate.
C13_OneBatchedCall ==
    /\ Len(provider_calls) <= 1
    /\ provider_calls # <<>> =>
           /\ pc \in AfterLayer4 \cup {"raised"}
           /\ provider_calls[1] = [i \in 1..Len(original_deduped) |->
                                      TextOf(original_deduped[i])]
    /\ pc \in AfterLayer4 =>
           Len(provider_calls) = IF original_deduped = <<>> THEN 0 ELSE 1

\* a finished run whose one provider call had two texts or more, fewer
\* than there were candidates
C13_Witness ==
    /\ pc = "done"
    /\ Len(provider_calls) = 1
    /\ Len(provider_calls[1]) >= 2
    /\ Len(provider_calls[1]) < Len(candidates)

Logged(phase) ==
    Cardinality({i \in 1..Len(files.agent_log) : files.agent_log[i] = phase})

\* C15: every call that returns normally has produced exactly one statistics
\* record of its run, the call with the empty list included.
C15_Claim ==
    pc = "done" =>
        /\ Len(files.dedup_stats_json) = 1
        /\ files.dedup_stats_json[1].candidates = Len(candidates)
        /\ files.dedup_stats_json[1].final = Len(returned)
        /\ Logged("deduplication_complete") = 1

\* C16: the duplicate ratio of a finished run is (candidates - final) /
\* candidates when there are candidates and 0 when there are none, and its
\* denominator is never zero.
C16_Claim ==
    pc = "done" =>
        /\ Len(duplicate_ratio) = 2
        /\ duplicate_ratio[2] # 0
        /\ IF Len(candidates) > 0
           THEN duplicate_ratio[1] * Len(candidates)
                    = (Len(candidates) - Len(returned)) * duplicate_ratio[2]
           ELSE duplicate_ratio[1] = 0

\* C17: the survivor count never increases through the pipeline:
\* final <= layer 3b <= layer 3 <= layer 2 <= layer 1 <= candidates.
C17_SurvivorsNonIncreasing ==
    /\ pc \in AfterLayer1 => Len(case_deduped) <= Len(candidates)
    /\ pc \in AfterLayer2 => Len(fuzzy_deduped) <= Len(case_deduped)
    /\ pc \in AfterLayer3 => Len(domain_deduped) <= Len(fuzzy_deduped)
    /\ pc \in AfterLayer3b => Len(original_deduped) <= Len(domain_deduped)
    /\ pc \in AfterLayer4 => Len(semantic_deduped) <= Len(original_deduped)
    /\ pc = "done" =>
           /\ dedup_stats.final = Len(semantic_deduped)
           /\ dedup_stats.final <= dedup_stats.candidates
           /\ Len(returned) <= Len(original_deduped)

\* a finished run in which layers 2, 3 and 3b each removed a candidate
C17_Witness ==
    /\ pc = "done"
    /\ Len(fuzzy_deduped) < Len(case_deduped)
    /\ Len(domain_deduped) < Len(fuzzy_deduped)
    /\ Len(original_deduped) < Len(domain_deduped)

\* the calls that have ended, in order, the current one included
Completed == history \o (IF pc \in {"done", "raised"} THEN <<Outcome>> ELSE <<>>)

WithEmptyStrings(list) ==
    [k \in 1..Len(list) |->
        [name |-> IF "name" \in DOMAIN list[k] THEN list[k].name ELSE <<>>,
         url |-> IF "url" \in DOMAIN list[k] THEN list[k].url ELSE <<>>,
         description |-> IF "description" \in DOMAIN list[k]
                         THEN list[k].description ELSE <<>>,
         category |-> IF "category" \in DOMAIN list[k] THEN list[k].category ELSE ""]]

Unparsable(url) == url \in {U_bad, U_BAD, U_bad_slash}

C22_Claim ==
    \A o_url \in original_urls :
        o_url = Lower(o_url) /\ o_url = RStrip(o_url, "/")

\* candidate c is within the threshold layer 2 uses for c of candidate a
Within2(c, a) ==
    LevenshteinDistance(LowerName(c), LowerName(a)) <= EffectiveThreshold(c)

\* candidate c passes the test layer 4 makes for c against candidate a
Within4(c, a) ==
    /\ CategoriesAllowMerge(c, a)
    /\ Similarity(c, a) >= (IF Sensitive(c) THEN 88 ELSE 85)

\* C24: layers 2 and 4 compare a candidate only with the candidates the
\* same layer accepted before it: it is removed iff it is within the
\* threshold of one of those, whatever rejected candidates it is close to.
C24_OnlyAcceptedAreReferences ==
    /\ pc \in AfterLayer2 =>
           \A c \in Range(case_deduped) :
               c \in Range(fuzzy_deduped) <=>
                   \A a \in Range(fuzzy_deduped) : a < c => ~Within2(c, a)
    /\ pc \in AfterLayer4 =>
           \A c \in Range(original_deduped) :
               c \in Range(semantic_deduped) <=>
                   \A a \in Range(semantic_deduped) : a < c => ~Within4(c, a)

\* in one run layer 2 accepted a candidate within its threshold of a
\* candidate layer 2 had rejected, and layer 4 did the same
C24_Witness ==
    /\ pc \in AfterLayer4
    /\ \E b \in Range(fuzzy_duplicates), c \in Range(fuzzy_deduped) :
           b < c /\ Within2(c, b)
    /\ \E b \in Range(semantic_duplicates), c \in Range(semantic_deduped) :
           b < c /\ Within4(c, b)

\* candidate c is unrelated to candidate a: its name is beyond the fuzzy
\* threshold, its canonical URL differs and the similarity is below 0.85
Unrelated(c, a) ==
    /\ LevenshteinDistance(LowerName(c), LowerName(a)) > EffectiveThreshold(c)
    /\ Canonical(c) # Canonical(a)
    /\ Similarity(c, a) < 85

\* C23: for [A, B, C] and no known URL, B having A's name up to letter case
\* and A's URL up to a trailing slash and C being unrelated to A, the run
\* returns [A, C] and counts B once, in case_filtered.
C23_Claim ==
    ( /\ pc = "done"
      /\ Len(candidates) = 3
      /\ original_urls = {}
      /\ LowerName(2) = LowerName(1)
      /\ RStrip(url_of(2), "/") = RStrip(url_of(1), "/")
      /\ Unrelated(3, 1) )
    => /\ returned = <<1, 3>>
       /\ dedup_stats = [candidates |-> 3, case_filtered |-> 1,
                         fuzzy_filtered |-> 0, domain_filtered |-> 0,
                         original_filtered |-> 0, semantic_filtered |-> 0,
                         final |-> 2]

\* C25: layer 3 removes a candidate iff a candidate it accepted before has
\* the same canonical URL, or the same hostname and the same lowercased
\* name.
C25_Claim ==
    pc \in AfterLayer3 =>
        \A c \in Range(fuzzy_deduped) :
            c \in Range(domain_duplicates) <=>
                \E a \in Range(domain_deduped) :
                    /\ a < c
                    /\ \/ Canonical(c) = Canonical(a)
                       \/ /\ _get_hostname(url_of(c)) = _get_hostname(url_of(a))
                          /\ LowerName(c) = LowerName(a)

\* the candidates a finished run removed, layer by layer
Removed ==
    <<case_duplicates, fuzzy_duplicates, domain_duplicates, original_filtered,
      semantic_duplicates>>

\* C26: a finished run on a non-empty list counts every input candidate in
\* exactly one of the five removal counters or in final:
\* candidates = case + fuzzy + domain + original + semantic + final.
C26_StatisticsConserved ==
    (pc = "done" /\ candidates # <<>>) =>
        /\ dedup_stats.candidates = Len(candidates)
        /\ dedup_stats.candidates =
               dedup_stats.case_filtered + dedup_stats.fuzzy_filtered
                   + dedup_stats.domain_filtered + dedup_stats.original_filtered
                   + dedup_stats.semantic_filtered + dedup_stats.final
        /\ dedup_stats.case_filtered = Len(Removed[1])
        /\ dedup_stats.fuzzy_filtered = Len(Removed[2])
        /\ dedup_stats.domain_filtered = Len(Removed[3])
        /\ dedup_stats.original_filtered = Len(Removed[4])
        /\ dedup_stats.semantic_filtered = Len(Removed[5])
        /\ dedup_stats.final = Len(returned)
        /\ \A i \in 1..Len(candidates) :
               Cardinality({l \in 1..5 : i \in Range(Removed[l])})
                   + (IF i \in Range(returned) THEN 1 ELSE 0) = 1

\* a finished run in which two layers removed a candidate each and one
\* candidate is returned
C26_Witness ==
    /\ pc = "done"
    /\ dedup_stats.fuzzy_filtered = 1
    /\ dedup_stats.original_filtered = 1
    /\ dedup_stats.final = 1

\* C27: in a returned list no two resources have the same lowercased name or
\* the same canonical URL, and the later of any two has a lowercased name
\* at Levenshtein distance greater than its effective threshold from the
\* earlier one's.
C27_ReturnedPairwiseDistinct ==
    pc = "done" =>
        \A i, j \in Range(returned) :
            i < j =>
                /\ LowerName(i) # LowerName(j)
                /\ Canonical(i) # Canonical(j)
                /\ LevenshteinDistance(LowerName(j), LowerName(i))
                       > EffectiveThreshold(j)

\* a run returned two resources after removing a candidate that has the
\* canonical URL of a returned one and a name beyond the threshold
C27_Witness ==
    /\ pc = "done"
    /\ Len(returned) >= 2
    /\ \E c \in 1..Len(candidates), a \in Range(returned) :
           /\ c \notin Range(returned)
           /\ ~Within2(c, a)
           /\ Canonical(c) = Canonical(a)

\* the candidate's own URL matches the known-URL set, raw or canonically
MatchesKnown(c) ==
    \/ url_of(c) \in original_urls
    \/ \E o_url \in original_urls : Canonical(c) = _get_canonical_url(o_url)

\* the earlier candidates that the layer which removed c had accepted and
\* found c to be a duplicate of
DuplicateOf(c) ==
    IF c \in Range(case_duplicates)
    THEN {a \in Range(case_deduped) : a < c /\ LowerName(a) = LowerName(c)}
    ELSE IF c \in Range(fuzzy_duplicates)
    THEN {a \in Range(fuzzy_deduped) : a < c /\ Within2(c, a)}
    ELSE IF c \in Range(domain_duplicates)
    THEN {a \in Range(domain_deduped) :
             /\ a < c
             /\ \/ Canonical(a) = Canonical(c)
                \/ HostnameTitleKey(_get_hostname(url_of(a)), LowerName(a))
                       = HostnameTitleKey(_get_hostname(url_of(c)), LowerName(c))}
    ELSE IF c \in Range(semantic_duplicates)
    THEN {a \in Range(semantic_deduped) : a < c /\ Within4(c, a)}
    ELSE {}

\* every way of following the duplicate-of links from c ends in `ends`
RECURSIVE EndsIn(_, _)
EndsIn(c, ends) ==
    \/ c \in ends
    \/ DuplicateOf(c) # {} /\ \A a \in DuplicateOf(c) : EndsIn(a, ends)

\* C28 as stated: every candidate that is absent from the output and whose
\* URL does not match the known-URL set was removed as a duplicate, and the
\* duplicate-of links from it always end at a candidate of the output.
C28_Original ==
    pc = "done" =>
        \A c \in 1..Len(candidates) :
            (c \notin Range(returned) /\ ~MatchesKnown(c)) =>
                DuplicateOf(c) # {} /\ EndsIn(c, Range(returned))

\* C28 amended: ... the duplicate-of links from it always end at a candidate
\* of the output or at a candidate that the known-URL filter removed.
C28_DroppedHasRepresentative ==
    pc = "done" =>
        \A c \in 1..Len(candidates) :
            (c \notin Range(returned) /\ ~MatchesKnown(c)) =>
                /\ DuplicateOf(c) # {}
                /\ EndsIn(c, Range(returned) \cup Range(original_filtered))

\* a candidate with an unknown URL was removed as a duplicate of a candidate
\* that the known-URL filter removed afterwards, in a run that returned
\* another candidate
C28_Witness ==
    /\ pc = "done"
    /\ returned # <<>>
    /\ \E c \in 1..Len(candidates) :
           /\ ~MatchesKnown(c)
           /\ DuplicateOf(c) # {}
           /\ DuplicateOf(c) \subseteq Range(original_filtered)

\* calls i and j of Completed returned and were given the same two
\* resources in opposite orders
OppositeOrders(i, j) ==
    /\ Completed[i].raised = "none" /\ Completed[j].raised = "none"
    /\ Len(Completed[i].candidates) = 2
    /\ Completed[j].candidates = Reverse(Completed[i].candidates)

\* C29 as stated: for any two candidates and any category configuration,
\* with no known URL, [a, b] and [b, a] have the same number of survivors.
C29_Original ==
    \A i, j \in 1..Len(Completed) :
        OppositeOrders(i, j) =>
            Len(Completed[i].returned) = Len(Completed[j].returned)

\* both resources of the list are in the configured category set or both
\* are outside it
SameSensitivity(list) ==
    (Get(list[1], "category", "") \in video_categories)
        <=> (Get(list[2], "category", "") \in video_categories)

\* C29 amended: for two candidates whose categories are both inside or both
\* outside the strict / cross-category-sensitive set, with no known URL,
\* [a, b] and [b, a] have the same number of survivors.
C29_OrderIndependentForEqualSensitivity ==
    \A i, j \in 1..Len(Completed) :
        (OppositeOrders(i, j) /\ SameSensitivity(Completed[i].candidates)) =>
            Len(Completed[i].returned) = Len(Completed[j].returned)

\* two resources of one sensitivity were given in both orders and each call
\* returned one of them, the one it was given first
C29_Witness ==
    \E i, j \in 1..Len(Completed) :
        /\ OppositeOrders(i, j) /\ SameSensitivity(Completed[i].candidates)
        /\ Completed[i].candidates[1] # Completed[i].candidates[2]
        /\ Completed[i].returned = <<1>>
        /\ Completed[j].returned = <<1>>

\* the two URLs are equal when compared case-insensitively and ignoring a
\* trailing slash
SameUrlIgnoringCaseAndSlash(u, v) == RStrip(Lower(u), "/") = RStrip(Lower(v), "/")

\* C30: after add_existing_links(L), is_duplicate(c) is true for every c
\* whose URL equals the URL of a link of L case-insensitively and ignoring a
\* trailing slash, whatever the name of c.
C30_Claim ==
    answer # <<>> =>
        ((\E link \in added_links : SameUrlIgnoringCaseAndSlash(answer[1].url, link.url))
            => answer[2])

====
